---- MODULE Spec2Model ----
(***************************************************************************)
(* Model of the glimmer shell event loop (crates/shell/src/lib.rs):        *)
(* the window registry `windows`, the buffered creates and the shared      *)
(* deferred-destroy queue, the dispatch of platform events to window       *)
(* handlers, and the drain at the end of every event loop invocation.      *)
(***************************************************************************)
EXTENDS Integers, Sequences, FiniteSets, TLC

\* ------------------------------------------------------------------------
\* Bounds of the exploration
\* ------------------------------------------------------------------------
\* windows the platform builds in one run (startup and spawned together)
MaxWin == 2
\* startup descriptors handed to run()
MaxDescs == 2
\* spawn/destroy requests one handler invocation makes
MaxReq == 2
\* Window::destroy() calls a constructor closure makes on its new handle
MaxCtorDestroy == 1
\* key-down repeats followed per held key
MaxRepeat == 2
\* key-down repeats followed up to the largest count the u16 holds
MaxHeld == 3

\* the largest usize the table lookup is tried with
MaxRawCode == 163

\* ------------------------------------------------------------------------
\* Values
\* ------------------------------------------------------------------------
None == "None"

\* ButtonState::Repeated carries a u16
U16 == 65536

\* the inner size a new window reports (as_extent(window.inner_size()))
InitialExtents == {<<800, 600>>}

\* inner sizes the platform reports in Resized and ScaleFactorChanged
Extents == {<<800, 600>>, <<1024, 600>>}

\* Point::zero()
ZeroPoint == <<0, 0>>

\* cursor positions the platform reports (as_point of a PhysicalPosition)
Points == {<<0, 0>>, <<5, 7>>}

\* winit::event::ElementState
ElementStates == {"Pressed", "Released"}

\* winit::event::MouseButton, Other(u16) sampled by one value
RawButtons == {<<"Left">>, <<"Right">>, <<"Middle">>, <<"Other", 4>>}

\* winit virtual key codes sampled from the 163 of the table: one with an
\* entry (Escape) and one without (Compose); NoKey is virtual_keycode = None
RawKeys == {"Escape", "Compose"}

NoKey == "NoKey"

\* winit::event::KeyboardInput {scancode, state, virtual_keycode}; the
\* scancode is a function of the physical key
KeyboardInputs ==
    [virtual_keycode : RawKeys \cup {NoKey}, state : ElementStates]

\* winit::event::VirtualKeyCode, in the order the platform library declares
\* its variants: `code as usize` is the position of the variant, from 0
WinitVirtualKeyCode ==
    <<
      "Key1", "Key2", "Key3", "Key4", "Key5", "Key6", "Key7", "Key8",
      "Key9", "Key0", "A", "B", "C", "D", "E", "F", "G", "H", "I", "J",
      "K", "L", "M", "N", "O", "P", "Q", "R", "S", "T", "U", "V", "W", "X",
      "Y", "Z", "Escape", "F1", "F2", "F3", "F4", "F5", "F6", "F7", "F8",
      "F9", "F10", "F11", "F12", "F13", "F14", "F15", "F16", "F17", "F18",
      "F19", "F20", "F21", "F22", "F23", "F24", "Snapshot", "Scroll",
      "Pause", "Insert", "Home", "Delete", "End", "PageDown", "PageUp",
      "Left", "Up", "Right", "Down", "Back", "Return", "Space", "Compose",
      "Caret", "Numlock", "Numpad0", "Numpad1", "Numpad2", "Numpad3",
      "Numpad4", "Numpad5", "Numpad6", "Numpad7", "Numpad8", "Numpad9",
      "NumpadAdd", "NumpadDivide", "NumpadDecimal", "NumpadComma",
      "NumpadEnter", "NumpadEquals", "NumpadMultiply", "NumpadSubtract",
      "AbntC1", "AbntC2", "Apostrophe", "Apps", "Asterisk", "At", "Ax",
      "Backslash", "Calculator", "Capital", "Colon", "Comma", "Convert",
      "Equals", "Grave", "Kana", "Kanji", "LAlt", "LBracket", "LControl",
      "LShift", "LWin", "Mail", "MediaSelect", "MediaStop", "Minus",
      "Mute", "MyComputer", "NavigateForward", "NavigateBackward",
      "NextTrack", "NoConvert", "OEM102", "Period", "PlayPause", "Plus",
      "Power", "PrevTrack", "RAlt", "RBracket", "RControl", "RShift",
      "RWin", "Semicolon", "Sleep", "Slash", "Stop", "Sysrq", "Tab",
      "Underline", "Unlabeled", "VolumeDown", "VolumeUp", "Wake",
      "WebBack", "WebFavorites", "WebForward", "WebHome", "WebRefresh",
      "WebSearch", "WebStop", "Yen", "Copy", "Paste", "Cut"
    >>

\* `virtual_keycode as usize`
AsUsize(code) ==
    (CHOOSE i \in DOMAIN WinitVirtualKeyCode : WinitVirtualKeyCode[i] = code) - 1

\* the length of the table: [VirtualKeyCode; 163]
KeyTableLen == 163

\* the assignments `table[winit::event::VirtualKeyCode::X as usize] =
\* VirtualKeyCode::Y`, as pairs <<X, Y>>
Assignments ==
    {
      <<"Key1", "Key1">>, <<"Key2", "Key2">>, <<"Key3", "Key3">>,
      <<"Key4", "Key4">>, <<"Key5", "Key5">>, <<"Key6", "Key6">>,
      <<"Key7", "Key7">>, <<"Key8", "Key8">>, <<"Key9", "Key9">>,
      <<"Key0", "Key0">>, <<"A", "A">>, <<"B", "B">>, <<"C", "C">>,
      <<"D", "D">>, <<"E", "E">>, <<"F", "F">>, <<"G", "G">>, <<"H", "H">>,
      <<"I", "I">>, <<"J", "J">>, <<"K", "K">>, <<"L", "L">>, <<"M", "M">>,
      <<"N", "N">>, <<"O", "O">>, <<"P", "P">>, <<"Q", "Q">>, <<"R", "R">>,
      <<"S", "S">>, <<"T", "T">>, <<"U", "U">>, <<"V", "V">>, <<"W", "W">>,
      <<"X", "X">>, <<"Y", "Y">>, <<"Z", "Z">>, <<"Numpad1", "Keypad1">>,
      <<"Numpad2", "Keypad2">>, <<"Numpad3", "Keypad3">>,
      <<"Numpad4", "Keypad4">>, <<"Numpad5", "Keypad5">>,
      <<"Numpad6", "Keypad6">>, <<"Numpad7", "Keypad7">>,
      <<"Numpad8", "Keypad8">>, <<"Numpad9", "Keypad9">>,
      <<"Numpad0", "Keypad0">>, <<"NumpadAdd", "KeypadAdd">>,
      <<"NumpadSubtract", "KeypadSubtract">>,
      <<"NumpadMultiply", "KeypadMultiply">>,
      <<"NumpadDivide", "KeypadDivide">>,
      <<"NumpadDecimal", "KeypadDecimal">>, <<"Equals", "Equals">>,
      <<"Comma", "Comma">>, <<"Minus", "Minus">>, <<"Period", "Period">>,
      <<"Semicolon", "Semicolon">>, <<"Slash", "Slash">>,
      <<"Grave", "Grave">>, <<"LBracket", "LBracket">>,
      <<"Backslash", "Backslash">>, <<"RBracket", "Rbracket">>,
      <<"Apostrophe", "Apostrophe">>, <<"Tab", "Tab">>,
      <<"Space", "Space">>, <<"Kana", "ImeKana">>, <<"Kanji", "ImeKanji">>,
      <<"Convert", "ImeConvert">>, <<"NoConvert", "ImeNonConvert">>,
      <<"Insert", "Insert">>, <<"Delete", "Delete">>,
      <<"Back", "Backspace">>, <<"Return", "Enter">>,
      <<"LShift", "LShift">>, <<"RShift", "RShift">>,
      <<"LControl", "LControl">>, <<"RControl", "RControl">>,
      <<"LAlt", "LMenu">>, <<"RAlt", "RMenu">>, <<"Pause", "Pause">>,
      <<"Capital", "CapsLock">>, <<"Escape", "Escape">>,
      <<"PageUp", "PageUp">>, <<"PageDown", "PageDown">>,
      <<"Home", "Home">>, <<"End", "End">>, <<"Left", "Left">>,
      <<"Right", "Right">>, <<"Up", "Up">>, <<"Down", "Down">>,
      <<"Scroll", "ScrollLock">>, <<"Numlock", "NumLock">>, <<"F1", "F1">>,
      <<"F2", "F2">>, <<"F3", "F3">>, <<"F4", "F4">>, <<"F5", "F5">>,
      <<"F6", "F6">>, <<"F7", "F7">>, <<"F8", "F8">>, <<"F9", "F9">>,
      <<"F10", "F10">>, <<"F11", "F11">>, <<"F12", "F12">>,
      <<"F13", "F13">>, <<"F14", "F14">>, <<"F15", "F15">>,
      <<"F16", "F16">>, <<"F17", "F17">>, <<"F18", "F18">>,
      <<"F19", "F19">>, <<"F20", "F20">>, <<"F21", "F21">>,
      <<"F22", "F22">>, <<"F23", "F23">>, <<"F24", "F24">>,
      <<"LWin", "LSuper">>, <<"RWin", "RSuper">>,
      <<"MediaSelect", "Select">>, <<"Snapshot", "Snapshot">>,
      <<"NextTrack", "MediaNextTrack">>, <<"PrevTrack", "MediaPrevTrack">>,
      <<"MediaStop", "MediaStop">>, <<"PlayPause", "MediaPlayPause">>
    }

\* the table: Invalid everywhere, then the assignments
KeyTable ==
    [i \in 0..(KeyTableLen - 1) |->
        LET hits == {a \in Assignments : AsUsize(a[1]) = i}
        IN  IF hits = {} THEN "Invalid" ELSE (CHOOSE a \in hits : TRUE)[2]]

\* the panic of an array index that is not below the array's length
IndexOutOfBounds == "index out of bounds"

\* KEY_MAP[i] for a usize i: Rust checks the index against the length
Index(i) == IF i \in DOMAIN KeyTable THEN KeyTable[i] ELSE IndexOutOfBounds

\* KEY_MAP[virtual_keycode as usize]
KEY_MAP(code) == Index(AsUsize(code))

\* the mouse button translation of the MouseInput arm
AsMouseButton(button) ==
    CASE button[1] = "Left" -> <<"Left">>
      [] button[1] = "Right" -> <<"Right">>
      [] button[1] = "Middle" -> <<"Middle">>
      [] OTHER -> <<"Other", button[2]>>

\* the element state translation of the MouseInput arm
AsButtonState(state) ==
    IF state = "Pressed" THEN "Pressed" ELSE "Released"

Min(a, b) == IF a < b THEN a ELSE b

\* ------------------------------------------------------------------------
\* State
\* ------------------------------------------------------------------------
VARIABLES
    pc,                       \* position of run(): see Positions
    windows,                  \* the registry: WindowId -> WindowState
    buffered_window_creates,  \* Vec<WindowState> filled by Control::spawn
    buffered_window_destroys, \* the shared DeferredDestroy queue
    nextId,                   \* next WindowId the platform issues
    descsLeft,                \* startup descriptors not built yet
    cur,                      \* the handler callback that is executing
    idleTodo,                 \* windows values_mut() has yet to visit
    fatal,                    \* the panic that ended run(), or None
    ev,                       \* the event being dispatched
    idleCalls,                \* windows given on_idle by this values_mut loop
    destroyCalls,             \* windows given on_destroy by this drain
    iter,                     \* this invocation: registry at its start, ids
                              \* spawned, ids enqueued, close-request answer
    destroyCount,             \* on_destroy calls per window, whole run
    idled,                    \* windows that ever received on_idle
    recorded,                 \* last size reported to each live window
    roundTripped,             \* windows removed by the drain that inserted them
    key_code,                 \* a usize used as an index into KEY_MAP
    key_result                \* what indexing KEY_MAP with key_code gave

vars == <<pc, windows, buffered_window_creates, buffered_window_destroys,
          nextId, descsLeft, cur, idleTodo, fatal, ev, idleCalls,
          destroyCalls, iter, destroyCount, idled, recorded, roundTripped,
          key_code, key_result>>

\* the variables of the table lookup taken alone
key_vars == <<key_code, key_result>>

Positions == {"init", "poll", "handler", "idle", "returned", "drain_create",
              "drain_destroy", "on_destroy", "terminated", "fatal"}

Ids == 1..MaxWin

\* ids of every Window handle built so far; a handle can outlive its
\* registry entry when the application keeps it outside the handler
Handles == 1..(nextId - 1)

Registered == DOMAIN windows

\* Option<(KeyboardInput, u16)>: None, and Some((input, count))
NoTracker == <<>>

SomeTracker(input, count) == <<[input |-> input, count |-> count]>>

\* What an event carries and what a callback is given: the fields an
\* event or callback does not have keep the values below
NoArg ==
    [extent |-> <<0, 0>>, position |-> <<0, 0>>,
     input |-> [virtual_keycode |-> NoKey, state |-> None],
     button |-> <<None>>, state |-> None, count |-> 0, key |-> None]

NoCall == [w |-> 0, cb |-> None, arg |-> NoArg]

\* the target window's state and last reported size before the event
NoWas ==
    [state |-> [id |-> 0, extent |-> <<0, 0>>, cursor_position |-> ZeroPoint,
                repeated_key |-> NoTracker],
     reported |-> <<0, 0>>]

NoEvent == [kind |-> None, w |-> 0, arg |-> NoArg, was |-> NoWas]

\* before: the registry when the invocation began; spawned: ids built by
\* Control::spawn; enq: every id pushed on the queue, in order; byHandle:
\* how many of those pushes were Window::destroy() calls; answer: what
\* on_close_request returned
EmptyIter ==
    [before |-> {}, spawned |-> {}, enq |-> <<>>, byHandle |-> 0,
     answer |-> None, startup |-> FALSE]

\* the bookkeeping of startup: run() before its event loop
StartupIter == [EmptyIter EXCEPT !.startup = TRUE]

Call(w, cb, arg) == [w |-> w, cb |-> cb, arg |-> arg]

Event(kind, w, arg, was) == [kind |-> kind, w |-> w, arg |-> arg, was |-> was]

\* ------------------------------------------------------------------------
\* Helpers
\* ------------------------------------------------------------------------
Range(s) == {s[i] : i \in DOMAIN s}

IdsOf(states) == {states[i].id : i \in DOMAIN states}

\* windows.insert(window.id, window)
Insert(map, state) ==
    [i \in (DOMAIN map) \cup {state.id} |->
        IF i = state.id THEN state ELSE map[i]]

\* a remove that leaves the entry in the map
RemoveKeeps(map, id) == map

\* windows.remove(&window_id)
Remove(map, id) == [i \in (DOMAIN map) \ {id} |-> map[i]]

RECURSIVE InsertAll(_, _)
\* for window in buffered_window_creates.drain(..) { windows.insert(..) }
InsertAll(map, states) ==
    IF states = <<>> THEN map
    ELSE InsertAll(Insert(map, Head(states)), Tail(states))

\* What a spawn or destroy request works on: the two buffers, the platform's
\* id counter, and the record of the ids spawned and enqueued
Buffers(creates, destroys, next, it) ==
    [creates |-> creates, destroys |-> destroys, next |-> next,
     spawned |-> it.spawned, enq |-> it.enq, byHandle |-> it.byHandle,
     built |-> <<>>]

\* buffered_window_destroys.borrow_mut().push(window_id)
Push(b, id) ==
    [b EXCEPT !.destroys = Append(@, id), !.enq = Append(@, id)]

\* Window::destroy: push the handle's id on the shared queue
WindowDestroy(b, id) ==
    [Push(b, id) EXCEPT !.byHandle = @ + 1]

\* a CloseRequested arm that ignores the handler's answer
CloseAnswerIgnored(b, id, allow) == Push(b, id)

\* CloseRequested: `if on_close_request(..) { ..push(window_id) }`
CloseAnswer(b, id, allow) ==
    IF allow THEN Push(b, id) ELSE b

\* a repeat tracker that stores the count without incrementing it
NextCountStuck(count) == count % U16

\* `count + 1` on the u16 of the repeat tracker
NextCount(count) == (count + 1) % U16

RECURSIVE CtorDestroys(_, _, _)
\* the constructor closure calling Window::destroy() k times on its handle
CtorDestroys(b, id, k) ==
    IF k = 0 THEN b ELSE CtorDestroys(WindowDestroy(b, id), id, k - 1)

\* WindowDesc::build: the platform issues the id, the constructor closure
\* runs with the new handle, the WindowState is returned (in b.built)
Build(b, extent, k) ==
    LET id == b.next
        c == CtorDestroys([b EXCEPT !.next = @ + 1,
                                    !.spawned = @ \cup {id}], id, k)
    IN  [c EXCEPT !.built =
            <<[id |-> id, extent |-> extent, cursor_position |-> ZeroPoint,
               repeated_key |-> NoTracker]>>]

\* Control::spawn: build, then push on buffered_creates
Spawn(b, extent, k) ==
    LET c == Build(b, extent, k)
    IN  [c EXCEPT !.creates = Append(@, c.built[1])]

\* the requests a callback can make: spawn a window whose constructor calls
\* destroy() k times, or call destroy() on a handle the application holds
Requests(handles) ==
    {<<"spawn", e, k>> : e \in InitialExtents, k \in 0..MaxCtorDestroy}
        \cup {<<"destroy", h, 0>> : h \in handles}

RequestSeqs(handles) ==
    UNION {[1..n -> Requests(handles)] : n \in 0..MaxReq}

RECURSIVE RunRequests(_, _)
\* the body of a callback: its requests, in order
RunRequests(b, requests) ==
    IF requests = <<>> THEN b
    ELSE LET r == Head(requests)
         IN  RunRequests(IF r[1] = "spawn" THEN Spawn(b, r[2], r[3])
                         ELSE WindowDestroy(b, r[2]),
                         Tail(requests))

\* the buffers as the state holds them
CurrentBuffers ==
    Buffers(buffered_window_creates, buffered_window_destroys, nextId, iter)

\* the record of the invocation after the requests in b
Recorded(it, b) ==
    [it EXCEPT !.spawned = b.spawned, !.enq = b.enq, !.byHandle = b.byHandle]

\* the state of the event's target before the event
Was(w) == [state |-> windows[w], reported |-> recorded[w].extent]

\* ------------------------------------------------------------------------
\* Initial state: run() has created the empty map and the empty buffers
\* ------------------------------------------------------------------------
Init ==
    /\ pc = "init"
    /\ windows = <<>>
    /\ buffered_window_creates = <<>>
    /\ buffered_window_destroys = <<>>
    /\ nextId = 1
    /\ descsLeft \in 0..Min(MaxDescs, MaxWin)
    /\ cur = NoCall
    /\ idleTodo = {}
    /\ fatal = None
    /\ ev = NoEvent
    /\ idleCalls = <<>>
    /\ destroyCalls = <<>>
    /\ iter = StartupIter
    /\ destroyCount = [i \in Ids |-> 0]
    /\ idled = {}
    /\ recorded = <<>>
    /\ roundTripped = {}
    /\ key_code = 0
    /\ key_result = None

\* ------------------------------------------------------------------------
\* Startup: build every descriptor, insert it directly into the map
\* ------------------------------------------------------------------------
\* a startup loop that pushes the built state on the pending creates, the
\* way Control::spawn does, instead of inserting it
StartupBuildDefers ==
    /\ pc = "init"
    /\ descsLeft > 0
    /\ nextId <= MaxWin
    /\ \E extent \in InitialExtents, k \in 0..MaxCtorDestroy :
        LET b == Spawn(CurrentBuffers, extent, k)
        IN  /\ buffered_window_creates' = b.creates
            /\ buffered_window_destroys' = b.destroys
            /\ nextId' = b.next
            /\ iter' = Recorded(iter, b)
            /\ recorded' = Insert(recorded, [id |-> nextId, extent |-> extent])
    /\ descsLeft' = descsLeft - 1
    /\ UNCHANGED <<pc, windows, cur, idleTodo, fatal, ev, idleCalls,
                   destroyCalls, destroyCount, idled, roundTripped, key_vars>>

\* one turn of `for desc in window_descs`: WindowDesc::build, then insert
StartupBuild ==
    /\ pc = "init"
    /\ descsLeft > 0
    /\ nextId <= MaxWin
    /\ \E extent \in InitialExtents, k \in 0..MaxCtorDestroy :
        LET b == Build(CurrentBuffers, extent, k)
        IN  /\ windows' = Insert(windows, b.built[1])
            /\ buffered_window_destroys' = b.destroys
            /\ nextId' = b.next
            /\ iter' = [iter EXCEPT !.before = @ \cup {nextId},
                                    !.enq = b.enq, !.byHandle = b.byHandle]
            /\ recorded' = Insert(recorded, [id |-> nextId, extent |-> extent])
    /\ descsLeft' = descsLeft - 1
    /\ UNCHANGED <<pc, buffered_window_creates, cur, idleTodo, fatal, ev,
                   idleCalls, destroyCalls, destroyCount, idled,
                   roundTripped,
                   key_vars>>

\* a run() that enters its event loop without the startup drain
StartupDoneSkipsDrain ==
    /\ pc = "init"
    /\ descsLeft = 0
    /\ pc' = "poll"
    /\ UNCHANGED <<windows, buffered_window_creates, buffered_window_destroys,
                   nextId, descsLeft, cur, idleTodo, fatal, ev, idleCalls,
                   destroyCalls, iter, destroyCount, idled, recorded,
                   roundTripped, key_vars>>

\* the descriptors are exhausted: run() reaches its startup drain
StartupDone ==
    /\ pc = "init"
    /\ descsLeft = 0
    /\ pc' = "drain_create"
    /\ UNCHANGED <<windows, buffered_window_creates, buffered_window_destroys,
                   nextId, descsLeft, cur, idleTodo, fatal, ev, idleCalls, destroyCalls, iter,
                   destroyCount, idled, recorded, roundTripped,
                   key_vars>>

\* ------------------------------------------------------------------------
\* The drain at the end of every event loop invocation (and of startup)
\* ------------------------------------------------------------------------
\* a drain that inserts the pending creates but leaves them in the buffer
DrainCreatesLeavesBuffer ==
    /\ pc = "drain_create"
    /\ windows' = InsertAll(windows, buffered_window_creates)
    /\ pc' = "drain_destroy"
    /\ ev' = NoEvent
    /\ UNCHANGED <<buffered_window_creates, buffered_window_destroys, nextId,
                   descsLeft, cur, idleTodo, fatal, idleCalls, destroyCalls,
                   iter, destroyCount, idled, recorded, roundTripped,
                   key_vars>>

\* a drain that drops a pending create whose id is already on the destroy
\* queue instead of inserting it
DrainCreatesDropsDestroyed ==
    /\ pc = "drain_create"
    /\ windows' =
          InsertAll(windows,
                    SelectSeq(buffered_window_creates,
                              LAMBDA state :
                                  state.id \notin Range(buffered_window_destroys)))
    /\ buffered_window_creates' = <<>>
    /\ pc' = "drain_destroy"
    /\ ev' = NoEvent
    /\ UNCHANGED <<buffered_window_destroys, nextId, descsLeft, cur, idleTodo,
                   fatal, idleCalls, destroyCalls, iter, destroyCount, idled, recorded,
                   roundTripped,
                   key_vars>>

\* for window in buffered_window_creates.drain(..) { windows.insert(..) }
DrainCreates ==
    /\ pc = "drain_create"
    /\ windows' = InsertAll(windows, buffered_window_creates)
    /\ buffered_window_creates' = <<>>
    /\ pc' = "drain_destroy"
    /\ ev' = NoEvent
    /\ UNCHANGED <<buffered_window_destroys, nextId, descsLeft, cur, idleTodo,
                   fatal, idleCalls, destroyCalls, iter, destroyCount, idled, recorded,
                   roundTripped,
                   key_vars>>

\* a destroy drain that takes the ids from the back of the queue
DrainDestroyStepFromBack ==
    /\ pc = "drain_destroy"
    /\ buffered_window_destroys # <<>>
    /\ LET last == Len(buffered_window_destroys)
           window_id == buffered_window_destroys[last]
       IN  IF window_id \in Registered
           THEN /\ windows' = Remove(windows, window_id)
                /\ recorded' = Remove(recorded, window_id)
                /\ buffered_window_destroys' =
                       SubSeq(buffered_window_destroys, 1, last - 1)
                /\ cur' = Call(window_id, "on_destroy", NoArg)
                /\ destroyCalls' = Append(destroyCalls, window_id)
                /\ destroyCount' =
                       [destroyCount EXCEPT ![window_id] = @ + 1]
                /\ roundTripped' =
                       roundTripped \cup ({window_id} \cap iter.spawned)
                /\ pc' = "on_destroy"
                /\ UNCHANGED fatal
           ELSE /\ pc' = "fatal"
                /\ fatal' = "cannot destroy a window twice"
                /\ UNCHANGED <<windows, buffered_window_destroys, cur,
                               destroyCalls, destroyCount, recorded,
                               roundTripped>>
    /\ UNCHANGED <<buffered_window_creates, nextId, descsLeft, idleTodo, ev,
                   idleCalls, iter, idled, key_vars>>

\* a destroy drain that skips an id the map does not hold
\* (`if let Some(state) = windows.remove(..)`)
DrainDestroyStepSkipsAbsent ==
    /\ pc = "drain_destroy"
    /\ buffered_window_destroys # <<>>
    /\ LET window_id == Head(buffered_window_destroys) IN
        IF window_id \in Registered
        THEN /\ windows' = Remove(windows, window_id)
             /\ recorded' = Remove(recorded, window_id)
             /\ buffered_window_destroys' = Tail(buffered_window_destroys)
             /\ cur' = Call(window_id, "on_destroy", NoArg)
             /\ destroyCalls' = Append(destroyCalls, window_id)
             /\ destroyCount' =
                    [destroyCount EXCEPT ![window_id] = @ + 1]
             /\ roundTripped' =
                    roundTripped \cup ({window_id} \cap iter.spawned)
             /\ pc' = "on_destroy"
        ELSE /\ buffered_window_destroys' = Tail(buffered_window_destroys)
             /\ UNCHANGED <<pc, windows, cur, destroyCalls, destroyCount,
                            recorded, roundTripped>>
    /\ UNCHANGED <<buffered_window_creates, nextId, descsLeft, idleTodo, ev,
                   idleCalls, iter, idled, fatal, key_vars>>

\* one turn of `for window_id in buffered_window_destroys.borrow_mut()
\* .drain(..)`: remove the state or panic, then call on_destroy
DrainDestroyStep ==
    /\ pc = "drain_destroy"
    /\ buffered_window_destroys # <<>>
    /\ LET window_id == Head(buffered_window_destroys) IN
        IF window_id \in Registered
        THEN /\ windows' = Remove(windows, window_id)
             /\ recorded' = Remove(recorded, window_id)
             /\ buffered_window_destroys' = Tail(buffered_window_destroys)
             /\ cur' = Call(window_id, "on_destroy", NoArg)
             /\ destroyCalls' = Append(destroyCalls, window_id)
             /\ destroyCount' =
                    [destroyCount EXCEPT ![window_id] = @ + 1]
             /\ roundTripped' =
                    roundTripped \cup ({window_id} \cap iter.spawned)
             /\ pc' = "on_destroy"
             /\ UNCHANGED fatal
        ELSE /\ pc' = "fatal"
             /\ fatal' = "cannot destroy a window twice"
             /\ UNCHANGED <<windows, buffered_window_destroys, cur,
                            destroyCalls, destroyCount, recorded,
                            roundTripped>>
    /\ UNCHANGED <<buffered_window_creates, nextId, descsLeft, idleTodo, ev,
                   idleCalls, iter, idled, key_vars>>

\* on_destroy returns; the removed state is dropped
OnDestroyReturn ==
    /\ pc = "on_destroy"
    /\ pc' = "drain_destroy"
    /\ cur' = NoCall
    /\ UNCHANGED <<windows, buffered_window_creates, buffered_window_destroys,
                   nextId, descsLeft, idleTodo, fatal, ev, idleCalls, destroyCalls, iter,
                   destroyCount, idled, recorded, roundTripped,
                   key_vars>>

\* an on_destroy whose Window::destroy() call is queued behind the ids the
\* drain still holds
OnDestroyCallsDestroyDeferred ==
    /\ pc = "on_destroy"
    /\ \E window_id \in Handles :
        buffered_window_destroys' = Append(buffered_window_destroys, window_id)
    /\ pc' = "drain_destroy"
    /\ cur' = NoCall
    /\ UNCHANGED <<windows, buffered_window_creates, nextId, descsLeft,
                   idleTodo, fatal, ev, idleCalls, destroyCalls, iter,
                   destroyCount, idled, recorded, roundTripped, key_vars>>

\* on_destroy calls Window::destroy() on a handle: borrow_mut() of the
\* queue while the drain holds its borrow panics
OnDestroyCallsDestroy ==
    /\ pc = "on_destroy"
    /\ Handles # {}
    /\ pc' = "fatal"
    /\ fatal' = "already borrowed"
    /\ UNCHANGED <<windows, buffered_window_creates, buffered_window_destroys,
                   nextId, descsLeft, cur, idleTodo, ev, idleCalls, destroyCalls, iter,
                   destroyCount, idled, recorded, roundTripped,
                   key_vars>>

\* a closure that returns from the destroy drain whatever the queue holds
DrainDoneEarly ==
    /\ pc = "drain_destroy"
    /\ pc' = "poll"
    /\ idleCalls' = <<>>
    /\ destroyCalls' = <<>>
    /\ iter' = EmptyIter
    /\ UNCHANGED <<windows, buffered_window_creates, buffered_window_destroys,
                   nextId, descsLeft, cur, idleTodo, fatal, ev, destroyCount,
                   idled, recorded, roundTripped, key_vars>>

\* both buffers are drained: the closure returns (or startup enters the
\* loop) and the platform delivers the next event
DrainDone ==
    /\ pc = "drain_destroy"
    /\ buffered_window_destroys = <<>>
    /\ pc' = "poll"
    /\ idleCalls' = <<>>
    /\ destroyCalls' = <<>>
    /\ iter' = EmptyIter
    /\ UNCHANGED <<windows, buffered_window_creates, buffered_window_destroys,
                   nextId, descsLeft, cur, idleTodo, fatal, ev, destroyCount,
                   idled, recorded, roundTripped,
                   key_vars>>

\* ------------------------------------------------------------------------
\* Dispatch of one platform event (one invocation of the run closure)
\* ------------------------------------------------------------------------
\* the closure is entered with an event: Control::new over the two buffers
Begin(kind, w, arg) ==
    /\ pc = "poll"
    /\ ev' = Event(kind, w, arg, IF w \in Registered THEN Was(w) ELSE NoWas)
    /\ iter' = [EmptyIter EXCEPT !.before = Registered]
    /\ UNCHANGED <<idleCalls, destroyCalls>>

\* a handler callback of window w starts executing
Invoke(w, cb, arg) ==
    /\ cur' = Call(w, cb, arg)
    /\ pc' = "handler"

\* the match arm ends without a callback: fall through to the drain
NoCallback ==
    /\ pc' = "drain_create"
    /\ UNCHANGED cur

\* an absent-window branch that exits whatever the map holds
WindowEventAbsentAlwaysExits ==
    /\ \E window_id \in Handles \ Registered :
        Begin("WindowEvent", window_id, NoArg)
    /\ pc' = "terminated"
    /\ UNCHANGED <<windows, buffered_window_creates, buffered_window_destroys,
                   nextId, descsLeft, cur, idleTodo, fatal, destroyCount, idled,
                   recorded, roundTripped,
                   key_vars>>

\* an absent-window branch that treats the missing window as fatal, the
\* way the RedrawRequested arm does
WindowEventAbsentPanics ==
    /\ \E window_id \in Handles \ Registered :
        Begin("WindowEvent", window_id, NoArg)
    /\ pc' = "fatal"
    /\ fatal' = "the window must exist"
    /\ UNCHANGED <<windows, buffered_window_creates, buffered_window_destroys,
                   nextId, descsLeft, cur, idleTodo, destroyCount, idled,
                   recorded, roundTripped,
                   key_vars>>

\* an absent-window branch that returns without looking at the map
WindowEventAbsentOnlyReturns ==
    /\ \E window_id \in Handles \ Registered :
        Begin("WindowEvent", window_id, NoArg)
    /\ pc' = "returned"
    /\ UNCHANGED <<windows, buffered_window_creates, buffered_window_destroys,
                   nextId, descsLeft, cur, idleTodo, fatal, destroyCount, idled,
                   recorded, roundTripped,
                   key_vars>>

\* Event::WindowEvent for an id that windows.get_mut() does not find:
\* exit if the map is empty, return either way
WindowEventAbsent ==
    /\ \E window_id \in Handles \ Registered :
        Begin("WindowEvent", window_id, NoArg)
    /\ pc' = IF Registered = {} THEN "terminated" ELSE "returned"
    /\ UNCHANGED <<windows, buffered_window_creates, buffered_window_destroys,
                   nextId, descsLeft, cur, idleTodo, fatal, destroyCount, idled, recorded,
                   roundTripped,
                   key_vars>>

\* the closure has returned early: the platform delivers the next event
ClosureReturn ==
    /\ pc = "returned"
    /\ pc' = "poll"
    /\ ev' = NoEvent
    /\ iter' = EmptyIter
    /\ UNCHANGED <<windows, buffered_window_creates, buffered_window_destroys,
                   nextId, descsLeft, cur, idleTodo, fatal, idleCalls, destroyCalls,
                   destroyCount, idled, recorded, roundTripped,
                   key_vars>>

\* WindowEvent::Resized
Resized ==
    /\ \E window_id \in Registered, extent \in Extents :
        /\ Begin("Resized", window_id, [NoArg EXCEPT !.extent = extent])
        /\ IF extent # windows[window_id].extent
           THEN Invoke(window_id, "on_resize",
                       [NoArg EXCEPT !.extent = extent])
           ELSE NoCallback
        /\ recorded' = [recorded EXCEPT ![window_id].extent = extent]
    /\ UNCHANGED <<windows, buffered_window_creates, buffered_window_destroys,
                   nextId, descsLeft, idleTodo, fatal, destroyCount, idled,
                   roundTripped,
                   key_vars>>

\* WindowEvent::CloseRequested: on_close_request runs, its answer is
\* acted on when it returns (HandlerRun)
CloseRequested ==
    /\ \E window_id \in Registered :
        /\ Begin("CloseRequested", window_id, NoArg)
        /\ Invoke(window_id, "on_close_request", NoArg)
    /\ UNCHANGED <<windows, buffered_window_creates, buffered_window_destroys,
                   nextId, descsLeft, idleTodo, fatal, destroyCount, idled,
                   recorded, roundTripped,
                   key_vars>>

\* a CursorMoved arm that reports the position without storing it
CursorMovedNotRecorded ==
    /\ \E window_id \in Registered, position \in Points :
        /\ Begin("CursorMoved", window_id, [NoArg EXCEPT !.position = position])
        /\ Invoke(window_id, "on_cursor_move",
                  [NoArg EXCEPT !.position = position])
    /\ UNCHANGED <<windows, buffered_window_creates, buffered_window_destroys,
                   nextId, descsLeft, idleTodo, fatal, destroyCount, idled,
                   recorded, roundTripped, key_vars>>

\* WindowEvent::CursorMoved
CursorMoved ==
    /\ \E window_id \in Registered, position \in Points :
        /\ Begin("CursorMoved", window_id, [NoArg EXCEPT !.position = position])
        /\ windows' = [windows EXCEPT ![window_id].cursor_position = position]
        /\ Invoke(window_id, "on_cursor_move",
                  [NoArg EXCEPT
                      !.position = windows'[window_id].cursor_position])
    /\ UNCHANGED <<buffered_window_creates, buffered_window_destroys, nextId,
                   descsLeft, idleTodo, fatal, destroyCount, idled, recorded,
                   roundTripped,
                   key_vars>>

\* WindowEvent::MouseInput
MouseInput ==
    /\ \E window_id \in Registered, button \in RawButtons,
          state \in ElementStates :
        /\ Begin("MouseInput", window_id,
                 [NoArg EXCEPT !.button = button, !.state = state])
        /\ Invoke(window_id, "on_mouse_button",
                  [NoArg EXCEPT
                      !.button = AsMouseButton(button),
                      !.state = AsButtonState(state),
                      !.position = windows[window_id].cursor_position])
    /\ UNCHANGED <<windows, buffered_window_creates, buffered_window_destroys,
                   nextId, descsLeft, idleTodo, fatal, destroyCount, idled,
                   recorded, roundTripped,
                   key_vars>>

\* WindowEvent::KeyboardInput without a virtual key code: `else { return; }`
KeyboardInputNoKey ==
    /\ \E window_id \in Registered, input \in KeyboardInputs :
        /\ input.virtual_keycode = NoKey
        /\ Begin("KeyboardInput", window_id, [NoArg EXCEPT !.input = input])
    /\ pc' = "returned"
    /\ UNCHANGED <<windows, buffered_window_creates, buffered_window_destroys,
                   nextId, descsLeft, cur, idleTodo, fatal, destroyCount, idled, recorded,
                   roundTripped,
                   key_vars>>

\* WindowEvent::KeyboardInput, ElementState::Pressed
KeyboardInputPressed ==
    /\ \E window_id \in Registered, input \in KeyboardInputs :
        /\ input.virtual_keycode # NoKey
        /\ input.state = "Pressed"
        /\ Begin("KeyboardInput", window_id, [NoArg EXCEPT !.input = input])
        /\ LET virtual_keycode == KEY_MAP(input.virtual_keycode)
               repeated_key == windows[window_id].repeated_key
               tracker == repeated_key[1]
           IN  IF repeated_key # NoTracker
               THEN IF tracker.input = input
                    THEN /\ tracker.count < MaxRepeat
                         /\ Invoke(window_id, "on_key",
                                   [NoArg EXCEPT
                                      !.key = virtual_keycode,
                                      !.state = "Repeated",
                                      !.count = NextCount(tracker.count)])
                         /\ windows' =
                              [windows EXCEPT ![window_id].repeated_key =
                                 SomeTracker(input,
                                             NextCount(tracker.count))]
                    ELSE /\ NoCallback
                         /\ UNCHANGED windows
               ELSE /\ Invoke(window_id, "on_key",
                              [NoArg EXCEPT !.key = virtual_keycode,
                                            !.state = "Pressed"])
                    /\ windows' =
                         [windows EXCEPT ![window_id].repeated_key =
                            SomeTracker(input, 0)]
    /\ UNCHANGED <<buffered_window_creates, buffered_window_destroys, nextId,
                   descsLeft, idleTodo, fatal, destroyCount, idled, recorded,
                   roundTripped,
                   key_vars>>

\* a Released arm that clears the tracker of every window
KeyboardInputReleasedClearsAll ==
    /\ \E window_id \in Registered, input \in KeyboardInputs :
        /\ input.virtual_keycode # NoKey
        /\ input.state = "Released"
        /\ Begin("KeyboardInput", window_id, [NoArg EXCEPT !.input = input])
        /\ Invoke(window_id, "on_key",
                  [NoArg EXCEPT !.key = KEY_MAP(input.virtual_keycode),
                                !.state = "Released"])
        /\ windows' =
              [w \in Registered |->
                  [windows[w] EXCEPT !.repeated_key = NoTracker]]
    /\ UNCHANGED <<buffered_window_creates, buffered_window_destroys, nextId,
                   descsLeft, idleTodo, fatal, destroyCount, idled, recorded,
                   roundTripped, key_vars>>

\* a Released arm that reports and clears only the key the tracker holds
KeyboardInputReleasedIfTracked ==
    /\ \E window_id \in Registered, input \in KeyboardInputs :
        /\ input.virtual_keycode # NoKey
        /\ input.state = "Released"
        /\ Begin("KeyboardInput", window_id, [NoArg EXCEPT !.input = input])
        /\ LET repeated_key == windows[window_id].repeated_key
           IN  IF /\ repeated_key # NoTracker
                  /\ repeated_key[1].input.virtual_keycode =
                         input.virtual_keycode
               THEN /\ Invoke(window_id, "on_key",
                              [NoArg EXCEPT
                                  !.key = KEY_MAP(input.virtual_keycode),
                                  !.state = "Released"])
                    /\ windows' =
                         [windows EXCEPT ![window_id].repeated_key = NoTracker]
               ELSE /\ NoCallback
                    /\ UNCHANGED windows
    /\ UNCHANGED <<buffered_window_creates, buffered_window_destroys, nextId,
                   descsLeft, idleTodo, fatal, destroyCount, idled, recorded,
                   roundTripped, key_vars>>

\* WindowEvent::KeyboardInput, ElementState::Released
KeyboardInputReleased ==
    /\ \E window_id \in Registered, input \in KeyboardInputs :
        /\ input.virtual_keycode # NoKey
        /\ input.state = "Released"
        /\ Begin("KeyboardInput", window_id, [NoArg EXCEPT !.input = input])
        /\ Invoke(window_id, "on_key",
                  [NoArg EXCEPT !.key = KEY_MAP(input.virtual_keycode),
                                !.state = "Released"])
        /\ windows' = [windows EXCEPT ![window_id].repeated_key = NoTracker]
    /\ UNCHANGED <<buffered_window_creates, buffered_window_destroys, nextId,
                   descsLeft, idleTodo, fatal, destroyCount, idled, recorded,
                   roundTripped,
                   key_vars>>

\* WindowEvent::ScaleFactorChanged
ScaleFactorChanged ==
    /\ \E window_id \in Registered, new_inner_size \in Extents :
        /\ Begin("ScaleFactorChanged", window_id,
                 [NoArg EXCEPT !.extent = new_inner_size])
        /\ Invoke(window_id, "on_rescale",
                  [NoArg EXCEPT !.extent = new_inner_size])
    /\ UNCHANGED <<windows, buffered_window_creates, buffered_window_destroys,
                   nextId, descsLeft, idleTodo, fatal, destroyCount, idled,
                   recorded, roundTripped,
                   key_vars>>

\* any other WindowEvent of a registered window: `_ => {}`
OtherWindowEvent ==
    /\ \E window_id \in Registered :
        Begin("OtherWindowEvent", window_id, NoArg)
    /\ NoCallback
    /\ UNCHANGED <<windows, buffered_window_creates, buffered_window_destroys,
                   nextId, descsLeft, idleTodo, fatal, destroyCount, idled,
                   recorded, roundTripped,
                   key_vars>>

\* Event::MainEventsCleared: start `for window in windows.values_mut()`
MainEventsCleared ==
    /\ Begin("MainEventsCleared", 0, NoArg)
    /\ idleTodo' = Registered
    /\ pc' = "idle"
    /\ UNCHANGED <<windows, buffered_window_creates, buffered_window_destroys,
                   nextId, descsLeft, cur, fatal, destroyCount, idled,
                   recorded, roundTripped,
                   key_vars>>

\* an idle loop that does not advance past the window it has just visited
IdleNextRevisits ==
    /\ pc = "idle"
    /\ \E window_id \in idleTodo :
        /\ idleTodo' = idleTodo
        /\ Invoke(window_id, "on_idle", NoArg)
        /\ idleCalls' = Append(idleCalls, window_id)
        /\ idled' = idled \cup {window_id}
    /\ UNCHANGED <<windows, buffered_window_creates, buffered_window_destroys,
                   nextId, descsLeft, fatal, ev, destroyCalls, iter,
                   destroyCount, recorded, roundTripped,
                   key_vars>>

\* one turn of the values_mut() loop, in the map's (arbitrary) order
IdleNext ==
    /\ pc = "idle"
    /\ \E window_id \in idleTodo :
        /\ idleTodo' = idleTodo \ {window_id}
        /\ Invoke(window_id, "on_idle", NoArg)
        /\ idleCalls' = Append(idleCalls, window_id)
        /\ idled' = idled \cup {window_id}
    /\ UNCHANGED <<windows, buffered_window_creates, buffered_window_destroys,
                   nextId, descsLeft, fatal, ev, destroyCalls, iter,
                   destroyCount, recorded, roundTripped,
                   key_vars>>

\* the values_mut() loop is exhausted
IdleDone ==
    /\ pc = "idle"
    /\ idleTodo = {}
    /\ pc' = "drain_create"
    /\ UNCHANGED <<windows, buffered_window_creates, buffered_window_destroys,
                   nextId, descsLeft, cur, idleTodo, fatal, ev, idleCalls, destroyCalls, iter,
                   destroyCount, idled, recorded, roundTripped,
                   key_vars>>

\* a RedrawRequested arm that drops the notification when the map does not
\* hold the window, the way the WindowEvent arm does
RedrawRequestedDropsAbsent ==
    /\ \E window_id \in Handles :
        /\ Begin("RedrawRequested", window_id, NoArg)
        /\ IF window_id \in Registered
           THEN Invoke(window_id, "on_redraw", NoArg)
           ELSE pc' = "returned" /\ UNCHANGED cur
    /\ UNCHANGED <<windows, buffered_window_creates, buffered_window_destroys,
                   nextId, descsLeft, idleTodo, fatal, destroyCount, idled,
                   recorded, roundTripped,
                   key_vars>>

\* Event::RedrawRequested: get_mut().expect(..), then on_redraw
RedrawRequested ==
    /\ \E window_id \in Handles :
        /\ Begin("RedrawRequested", window_id, NoArg)
        /\ IF window_id \in Registered
           THEN /\ Invoke(window_id, "on_redraw", NoArg)
                /\ UNCHANGED fatal
           ELSE /\ pc' = "fatal"
                /\ fatal' = "the window must exist"
                /\ UNCHANGED cur
    /\ UNCHANGED <<windows, buffered_window_creates, buffered_window_destroys,
                   nextId, descsLeft, idleTodo, destroyCount, idled, recorded,
                   roundTripped,
                   key_vars>>

\* any other Event: `_ => {}`
OtherEvent ==
    /\ Begin("OtherEvent", 0, NoArg)
    /\ NoCallback
    /\ UNCHANGED <<windows, buffered_window_creates, buffered_window_destroys,
                   nextId, descsLeft, idleTodo, fatal, destroyCount, idled,
                   recorded, roundTripped,
                   key_vars>>

\* ------------------------------------------------------------------------
\* A handler callback runs to completion
\* ------------------------------------------------------------------------
\* a callback whose destroy requests take the windows out of the map while
\* the callback is still running
HandlerRunDestroysAtOnce ==
    /\ pc = "handler"
    /\ \E requests \in RequestSeqs(Handles), allow \in BOOLEAN :
        LET b == RunRequests(CurrentBuffers, requests)
            closing == cur.cb = "on_close_request"
            c == IF closing THEN CloseAnswer(b, cur.w, allow) ELSE b
        IN  /\ ~closing => ~allow
            /\ b.next <= MaxWin + 1
            /\ buffered_window_creates' = c.creates
            /\ buffered_window_destroys' = c.destroys
            /\ nextId' = c.next
            /\ windows' = [w \in Registered \ Range(c.destroys) |-> windows[w]]
            /\ iter' = [Recorded(iter, c) EXCEPT
                           !.answer = IF closing
                                      THEN IF allow THEN "allow" ELSE "deny"
                                      ELSE @]
            /\ recorded' = InsertAll(recorded,
                   [i \in 1..(c.next - nextId) |->
                       [id |-> nextId + i - 1,
                        extent |-> c.creates[Len(buffered_window_creates) + i]
                                      .extent]])
    /\ pc' = IF cur.cb = "on_idle" THEN "idle" ELSE "drain_create"
    /\ cur' = NoCall
    /\ ev' = IF cur.cb = "on_idle" THEN ev ELSE NoEvent
    /\ UNCHANGED <<descsLeft, idleTodo, fatal, idleCalls, destroyCalls,
                   destroyCount, idled, roundTripped,
                   key_vars>>

\* a callback whose spawn requests put the new windows into the map while
\* the callback is still running
HandlerRunInsertsSpawned ==
    /\ pc = "handler"
    /\ \E requests \in RequestSeqs(Handles), allow \in BOOLEAN :
        LET b == RunRequests(CurrentBuffers, requests)
            closing == cur.cb = "on_close_request"
            c == IF closing THEN CloseAnswer(b, cur.w, allow) ELSE b
        IN  /\ ~closing => ~allow
            /\ b.next <= MaxWin + 1
            /\ buffered_window_creates' = c.creates
            /\ buffered_window_destroys' = c.destroys
            /\ nextId' = c.next
            /\ windows' = InsertAll(windows, c.creates)
            /\ iter' = [Recorded(iter, c) EXCEPT
                           !.answer = IF closing
                                      THEN IF allow THEN "allow" ELSE "deny"
                                      ELSE @]
            /\ recorded' = InsertAll(recorded,
                   [i \in 1..(c.next - nextId) |->
                       [id |-> nextId + i - 1,
                        extent |-> c.creates[Len(buffered_window_creates) + i]
                                      .extent]])
    /\ pc' = IF cur.cb = "on_idle" THEN "idle" ELSE "drain_create"
    /\ cur' = NoCall
    /\ ev' = IF cur.cb = "on_idle" THEN ev ELSE NoEvent
    /\ UNCHANGED <<descsLeft, idleTodo, fatal, idleCalls, destroyCalls,
                   destroyCount, idled, roundTripped,
                   key_vars>>

\* The callback makes its requests through its Control and the Window
\* handles the application holds, then returns. on_close_request answers
\* allow or deny, and allow pushes the window id on the queue; on_idle
\* returns into the values_mut() loop, every other callback to the drain.
HandlerRun ==
    /\ pc = "handler"
    /\ \E requests \in RequestSeqs(Handles), allow \in BOOLEAN :
        LET b == RunRequests(CurrentBuffers, requests)
            closing == cur.cb = "on_close_request"
            c == IF closing THEN CloseAnswer(b, cur.w, allow) ELSE b
        IN  /\ ~closing => ~allow
            /\ b.next <= MaxWin + 1
            /\ buffered_window_creates' = c.creates
            /\ buffered_window_destroys' = c.destroys
            /\ nextId' = c.next
            /\ iter' = [Recorded(iter, c) EXCEPT
                           !.answer = IF closing
                                      THEN IF allow THEN "allow" ELSE "deny"
                                      ELSE @]
            /\ recorded' = InsertAll(recorded,
                   [i \in 1..(c.next - nextId) |->
                       [id |-> nextId + i - 1,
                        extent |-> c.creates[Len(buffered_window_creates) + i]
                                      .extent]])
    /\ pc' = IF cur.cb = "on_idle" THEN "idle" ELSE "drain_create"
    /\ cur' = NoCall
    /\ ev' = IF cur.cb = "on_idle" THEN ev ELSE NoEvent
    /\ UNCHANGED <<windows, descsLeft, idleTodo, fatal, idleCalls, destroyCalls, destroyCount,
                   idled, roundTripped,
                   key_vars>>

\* ------------------------------------------------------------------------
\* The program
\* ------------------------------------------------------------------------
Next ==
    \/ StartupBuild
    \/ StartupDone
    \/ DrainCreates
    \/ DrainDestroyStep
    \/ OnDestroyReturn
    \/ OnDestroyCallsDestroy
    \/ DrainDone
    \/ WindowEventAbsent
    \/ ClosureReturn
    \/ Resized
    \/ CloseRequested
    \/ CursorMoved
    \/ MouseInput
    \/ KeyboardInputNoKey
    \/ KeyboardInputPressed
    \/ KeyboardInputReleased
    \/ ScaleFactorChanged
    \/ OtherWindowEvent
    \/ MainEventsCleared
    \/ IdleNext
    \/ IdleDone
    \/ RedrawRequested
    \/ OtherEvent
    \/ HandlerRun

Spec == Init /\ [][Next]_vars

TypeOK ==
    /\ pc \in Positions
    /\ Registered \subseteq Ids
    /\ nextId \in 1..(MaxWin + 1)

\* the platform keeps delivering events (ControlFlow::Poll), and a window
\* event for a window that left the registry is eventually delivered
FairSpec == Spec /\ WF_vars(Next) /\ SF_vars(WindowEventAbsent)

\* ------------------------------------------------------------------------
\* The table lookup taken alone: KEY_MAP[i] for every usize i up to MaxRawCode
\* ------------------------------------------------------------------------
KeyInit ==
    /\ pc = "init"
    /\ windows = <<>>
    /\ buffered_window_creates = <<>>
    /\ buffered_window_destroys = <<>>
    /\ nextId = 1
    /\ descsLeft = 0
    /\ cur = NoCall
    /\ idleTodo = {}
    /\ fatal = None
    /\ ev = NoEvent
    /\ idleCalls = <<>>
    /\ destroyCalls = <<>>
    /\ iter = EmptyIter
    /\ destroyCount = [i \in Ids |-> 0]
    /\ idled = {}
    /\ recorded = <<>>
    /\ roundTripped = {}
    /\ key_code \in 0..MaxRawCode
    /\ key_result = None

\* let virtual_keycode = KEY_MAP[virtual_keycode as usize];
KeyLookup ==
    /\ key_result = None
    /\ key_result' = Index(key_code)
    /\ UNCHANGED <<pc, windows, buffered_window_creates,
                   buffered_window_destroys, nextId, descsLeft, cur, idleTodo,
                   fatal, ev, idleCalls, destroyCalls, iter, destroyCount,
                   idled, recorded, roundTripped, key_code>>

KeyNext == KeyLookup

KeySpec == KeyInit /\ [][KeyNext]_vars

\* ------------------------------------------------------------------------
\* A key held until the u16 of the tracker is full: the event loop with one
\* window that has already counted all but the last MaxHeld repeats the u16
\* can hold
\* ------------------------------------------------------------------------
OverflowPanic == "attempt to add with overflow"

RepeatInit ==
    /\ pc = "poll"
    /\ \E extent \in InitialExtents, key \in RawKeys,
          count \in (U16 - 1 - MaxHeld)..(U16 - 1) :
        /\ windows =
              Insert(<<>>,
                     [id |-> 1, extent |-> extent,
                      cursor_position |-> ZeroPoint,
                      repeated_key |->
                         SomeTracker([virtual_keycode |-> key,
                                      state |-> "Pressed"], count)])
        /\ recorded = Insert(<<>>, [id |-> 1, extent |-> extent])
    /\ buffered_window_creates = <<>>
    /\ buffered_window_destroys = <<>>
    /\ nextId = 2
    /\ descsLeft = 0
    /\ cur = NoCall
    /\ idleTodo = {}
    /\ fatal = None
    /\ ev = NoEvent
    /\ idleCalls = <<>>
    /\ destroyCalls = <<>>
    /\ iter = EmptyIter
    /\ destroyCount = [i \in Ids |-> 0]
    /\ idled = {}
    /\ roundTripped = {}
    /\ key_code = 0
    /\ key_result = None

\* WindowEvent::KeyboardInput, ElementState::Pressed, for the key the
\* tracker holds: `count + 1` on the u16. With overflow checks (the debug
\* profile) the addition panics at 65535; without them (the release
\* profile) it wraps to 0.
KeyboardInputRepeated ==
    /\ \E window_id \in Registered, input \in KeyboardInputs :
        /\ input.virtual_keycode # NoKey
        /\ input.state = "Pressed"
        /\ windows[window_id].repeated_key # NoTracker
        /\ LET virtual_keycode == KEY_MAP(input.virtual_keycode)
               tracker == windows[window_id].repeated_key[1]
               repeated ==
                   /\ Invoke(window_id, "on_key",
                             [NoArg EXCEPT
                                !.key = virtual_keycode,
                                !.state = "Repeated",
                                !.count = NextCount(tracker.count)])
                   /\ windows' =
                        [windows EXCEPT ![window_id].repeated_key =
                           SomeTracker(input, NextCount(tracker.count))]
                   /\ UNCHANGED fatal
           IN  /\ tracker.input = input
               /\ tracker.count >= U16 - 1 - MaxHeld
               /\ Begin("KeyboardInput", window_id,
                        [NoArg EXCEPT !.input = input])
               /\ IF tracker.count + 1 < U16
                  THEN repeated
                  ELSE \/ repeated
                       \/ /\ pc' = "fatal"
                          /\ fatal' = OverflowPanic
                          /\ UNCHANGED <<windows, cur>>
    /\ UNCHANGED <<buffered_window_creates, buffered_window_destroys, nextId,
                   descsLeft, idleTodo, destroyCount, idled, recorded,
                   roundTripped, key_vars>>

RepeatNext ==
    \/ KeyboardInputRepeated
    \/ HandlerRun
    \/ DrainCreates
    \/ DrainDestroyStep
    \/ OnDestroyReturn
    \/ OnDestroyCallsDestroy
    \/ DrainDone

RepeatSpec == RepeatInit /\ [][RepeatNext]_vars

\* ------------------------------------------------------------------------
\* Properties
\* ------------------------------------------------------------------------
DoubleDestroy == "cannot destroy a window twice"

\* the drain has consumed the whole queue: the state the closure returns in
DrainEnd == pc = "drain_destroy" /\ buffered_window_destroys = <<>>

Count(seq, x) == Cardinality({i \in DOMAIN seq : seq[i] = x})

Enqueued == Range(iter.enq)

Pending == IdsOf(buffered_window_creates)

C2_SpawnedAndDestroyedRoundTrip ==
    /\ \A w \in iter.spawned \cap Enqueued :
        /\ w \notin idled
        /\ (/\ pc = "drain_destroy"
            /\ Count(buffered_window_destroys, w) = Count(iter.enq, w))
              => w \in Registered
        /\ DrainEnd =>
              w \notin Registered /\ destroyCount[w] = 1 /\ w \in roundTripped
        /\ (/\ pc = "fatal"
            /\ fatal = DoubleDestroy
            /\ Head(buffered_window_destroys) = w)
              => Count(iter.enq, w) > 1
    /\ \A w \in roundTripped :
        destroyCount[w] = 1 /\ w \notin idled /\ w \notin Registered

C2_Witness ==
    /\ DrainEnd
    /\ iter.spawned \cap Enqueued # {}
    /\ iter.spawned \subseteq roundTripped

\* C3: a registered window enqueued for destroy twice before the drain does
\* not bring the drain to the double-destroy panic.
C3_DuplicateDestroyTolerated ==
    ~ (/\ pc = "fatal"
       /\ fatal = DoubleDestroy
       /\ Head(buffered_window_destroys) \in iter.before
       /\ Count(iter.enq, Head(buffered_window_destroys)) >= 2)

\* C4: the drain consumes a queue entry only by removing a registered window
\* and calling its on_destroy; an entry whose id is not in the registry is
\* never skipped and never given on_destroy: the drain panics on it.
C4_AbsentIdIsFatal ==
    /\ destroyCalls \o buffered_window_destroys = iter.enq
    /\ \A i \in DOMAIN destroyCalls :
        /\ destroyCalls[i] \in iter.before \cup iter.spawned
        /\ destroyCalls[i] \notin Registered
    /\ (pc = "fatal" /\ fatal = DoubleDestroy) =>
        /\ buffered_window_destroys # <<>>
        /\ Head(buffered_window_destroys) \notin Registered

C4_Witness ==
    /\ pc = "fatal"
    /\ fatal = DoubleDestroy
    /\ Head(buffered_window_destroys) \notin iter.before \cup iter.spawned
    /\ destroyCount[Head(buffered_window_destroys)] = 1

\* C5: a key-down on a window without a tracker is reported as Pressed and
\* starts the tracker at count zero; a key-down equal to the tracked one is
\* reported as Repeated(count + 1) and stores count + 1; a key-up is
\* reported as Released and clears the tracker.
C5_KeyRepeatCounts ==
    (/\ ev.kind = "KeyboardInput"
     /\ ev.arg.input.virtual_keycode # NoKey
     /\ pc \in {"handler", "drain_create"}) =>
        LET input == ev.arg.input
            tracked == ev.was.state.repeated_key
            after == windows[ev.w].repeated_key
            Reported(state, count) ==
                /\ pc = "handler"
                /\ cur = Call(ev.w, "on_key",
                              [NoArg EXCEPT
                                  !.key = KEY_MAP(input.virtual_keycode),
                                  !.state = state, !.count = count])
        IN  /\ (input.state = "Pressed" /\ tracked = NoTracker) =>
                Reported("Pressed", 0) /\ after = SomeTracker(input, 0)
            /\ (/\ input.state = "Pressed"
                /\ tracked # NoTracker
                /\ tracked[1].input = input) =>
                  /\ Reported("Repeated", tracked[1].count + 1)
                  /\ after = SomeTracker(input, tracked[1].count + 1)
            /\ input.state = "Released" =>
                Reported("Released", 0) /\ after = NoTracker

C5_Witness ==
    /\ pc = "handler"
    /\ ev.kind = "KeyboardInput"
    /\ cur.arg.state = "Repeated"
    /\ cur.arg.count = 2

\* C6: on_resize is invoked for a resize event exactly when the reported
\* size differs from the size last reported for that window.
C6_ResizeIffSizeChanged ==
    ev.kind = "Resized" => ((pc = "handler") <=> (ev.arg.extent # ev.was.reported))

\* C7: during the values_mut loop of an idle notification every registered
\* window is either already visited or still to visit, none is visited
\* twice, the registry does not change, and no window of the pending
\* creates is visited.
C7_IdleOncePerRegistered ==
    (ev.kind = "MainEventsCleared" /\ pc \in {"idle", "handler"}) =>
        /\ Registered = iter.before
        /\ Range(idleCalls) \cup idleTodo = Registered
        /\ Range(idleCalls) \cap idleTodo = {}
        /\ Cardinality(Range(idleCalls)) = Len(idleCalls)
        /\ Range(idleCalls) \cap Pending = {}
        /\ (pc = "handler") => cur = Call(idleCalls[Len(idleCalls)],
                                          "on_idle", NoArg)

C7_Witness ==
    /\ pc = "idle"
    /\ idleTodo = {}
    /\ Len(idleCalls) >= 1
    /\ Pending # {}

\* C8: when on_close_request answers deny and no Window::destroy() call was
\* made, nothing is on the queue, no on_destroy is invoked, and every window
\* registered before the event is registered after the drain.
C8_DenyKeepsWindow ==
    (iter.answer = "deny" /\ iter.byHandle = 0) =>
        /\ iter.enq = <<>>
        /\ buffered_window_destroys = <<>>
        /\ destroyCalls = <<>>
        /\ iter.before \subseteq Registered
        /\ pc # "fatal"

C8_Witness ==
    /\ DrainEnd
    /\ iter.answer = "deny"
    /\ iter.byHandle = 0
    /\ iter.before # {}

C10_EmptyRegistryTerminates ==
    (pc = "poll" /\ Registered = {}) ~> (pc \in {"terminated", "fatal"})

\* C11: run() has left the loop by exit only with an empty registry, and a
\* window event for an id the registry does not hold, delivered while
\* windows are registered, returns to the loop without exiting.
C11_ExitOnlyWhenEmpty ==
    /\ pc = "terminated" => Registered = {}
    /\ (ev.kind = "WindowEvent" /\ Registered # {}) =>
        pc = "returned" /\ fatal = None

C11_Witness ==
    /\ ev.kind = "WindowEvent"
    /\ pc = "returned"
    /\ Registered # {}
    /\ ev.w \notin Registered

\* C12: on_destroy is called on a window in the step that removes it from
\* the registry; a window that has received on_destroy is not registered,
\* has received it once, and is not the target of any later callback.
C12_OnDestroyIsLast ==
    /\ \A w \in Ids :
        /\ destroyCount[w] <= 1
        /\ destroyCount[w] = 1 =>
            /\ w \notin Registered
            /\ w \notin idleTodo
            /\ pc = "handler" => cur.w # w
    /\ \A w \in Handles \ (Registered \cup Pending) : destroyCount[w] = 1
    /\ pc = "on_destroy" =>
        /\ cur.cb = "on_destroy"
        /\ cur.w \notin Registered
        /\ destroyCount[cur.w] = 1

C12_Witness ==
    /\ pc = "handler"
    /\ \E w \in Handles : destroyCount[w] = 1 /\ w \in idled

\* C13: the step that dispatches a window event for an id the registry
\* does not hold invokes no callback, leaves the registry and every window
\* state as they were, raises no panic, and ends in exit when the registry
\* is empty and in a plain return otherwise.
C13_AbsentWindowEventDropped ==
    [][(pc = "poll" /\ ev'.kind = "WindowEvent") =>
          /\ ev'.w \notin Registered
          /\ windows' = windows
          /\ cur' = NoCall
          /\ fatal' = None
          /\ buffered_window_creates' = <<>>
          /\ buffered_window_destroys' = <<>>
          /\ pc' = IF Registered = {} THEN "terminated" ELSE "returned"]_vars

C13_Witness ==
    /\ ev.kind = "WindowEvent"
    /\ pc = "terminated"
    /\ ev.w \in idled

\* C14: a redraw request for a registered window invokes on_redraw on that
\* window and on nothing else; a redraw request for an id the registry does
\* not hold ends run() in the panic of the expect, with no callback.
C14_RedrawOrFatal ==
    ev.kind = "RedrawRequested" =>
        IF ev.w \in Registered
        THEN /\ pc = "handler"
             /\ cur = Call(ev.w, "on_redraw", NoArg)
             /\ fatal = None
        ELSE /\ pc = "fatal"
             /\ fatal = "the window must exist"
             /\ cur = NoCall

C14_Witness ==
    /\ ev.kind = "RedrawRequested"
    /\ pc = "fatal"
    /\ destroyCount[ev.w] = 1

\* C15: from the start of an invocation until its drain, every
\* Window::destroy() call has only appended to the queue: the queue is the
\* list of the ids enqueued, the registry is what it was when the
\* invocation began, and no enqueued window has received on_destroy.
C15_DestroyIsDeferred ==
    pc \in {"init", "handler", "idle", "drain_create"} =>
        /\ buffered_window_destroys = iter.enq
        /\ destroyCalls = <<>>
        /\ Registered = iter.before
        /\ \A w \in Enqueued \cap iter.before :
            w \in Registered /\ destroyCount[w] = 0

C15_Witness ==
    /\ pc = "drain_create"
    /\ iter.byHandle > 0
    /\ Enqueued \cap Registered # {}

IsPrefix(s, t) == Len(s) <= Len(t) /\ SubSeq(t, 1, Len(s)) = s

\* C16: the set of registered ids changes only in a step of startup or of
\* the drain; a callback leaves the registry as it is, only appends to the
\* pending creates and to the destroy queue, and the ids it appends to the
\* pending creates are the ids it spawned.
C16_RegistryFixedDuringCallbacks ==
    [][/\ Registered' # Registered =>
            pc \in {"init", "drain_create", "drain_destroy"}
       /\ pc = "handler" =>
            /\ windows' = windows
            /\ IsPrefix(buffered_window_creates, buffered_window_creates')
            /\ IsPrefix(buffered_window_destroys, buffered_window_destroys')
            /\ IdsOf(buffered_window_creates') \ Pending =
                   iter'.spawned \ iter.spawned]_vars

C16_Witness ==
    /\ pc = "drain_create"
    /\ iter.spawned # {}
    /\ iter.answer = "allow"
    /\ iter.byHandle > 0
    /\ Registered = iter.before

\* C17: a keyboard event without a symbolic key (no virtual key code, or a
\* code whose table entry is Invalid) invokes no callback and leaves the
\* window's repeat tracker as it was.
C17_UnmappedKeyDropped ==
    (/\ ev.kind = "KeyboardInput"
     /\ \/ ev.arg.input.virtual_keycode = NoKey
        \/ KEY_MAP(ev.arg.input.virtual_keycode) = "Invalid") =>
        /\ pc # "handler"
        /\ fatal = None
        /\ windows[ev.w].repeated_key = ev.was.state.repeated_key

C19_OtherKeyDownIsPressed ==
    (/\ ev.kind = "KeyboardInput"
     /\ ev.arg.input.state = "Pressed"
     /\ ev.arg.input.virtual_keycode # NoKey
     /\ ev.was.state.repeated_key # NoTracker
     /\ ev.was.state.repeated_key[1].input # ev.arg.input) =>
        /\ pc = "handler"
        /\ cur = Call(ev.w, "on_key",
                      [NoArg EXCEPT
                          !.key = KEY_MAP(ev.arg.input.virtual_keycode),
                          !.state = "Pressed"])
        /\ windows[ev.w].repeated_key = SomeTracker(ev.arg.input, 0)

\* C20: a key-up with a virtual key code, whatever the tracker holds, is
\* reported to on_key as Released, once, and leaves the window without a
\* tracker; a key-down on a window without a tracker is reported as
\* Pressed.
C20_KeyUpClearsTracker ==
    (/\ ev.kind = "KeyboardInput"
     /\ ev.arg.input.virtual_keycode # NoKey) =>
        /\ ev.arg.input.state = "Released" =>
            /\ pc = "handler"
            /\ cur = Call(ev.w, "on_key",
                          [NoArg EXCEPT
                              !.key = KEY_MAP(ev.arg.input.virtual_keycode),
                              !.state = "Released"])
            /\ windows[ev.w].repeated_key = NoTracker
        /\ (/\ ev.arg.input.state = "Pressed"
            /\ ev.was.state.repeated_key = NoTracker) =>
            /\ pc = "handler"
            /\ cur.cb = "on_key"
            /\ cur.arg.state = "Pressed"

C20_Witness ==
    /\ pc = "handler"
    /\ ev.kind = "KeyboardInput"
    /\ ev.arg.input.state = "Released"
    /\ ev.was.state.repeated_key # NoTracker
    /\ ev.was.state.repeated_key[1].input.virtual_keycode #
           ev.arg.input.virtual_keycode
    /\ ev.was.state.repeated_key[1].count > 0

\* C21: every id on the destroy queue is the id of a window the registry
\* holds.
C21_QueuedIdsAreRegistered ==
    Range(buffered_window_destroys) \subseteq Registered

\* C22: a cursor-move event stores its position in the window's state and
\* gives it to on_cursor_move; a mouse-button event gives on_mouse_button
\* the button and state of the event and the position the window's state
\* holds; that position is the zero point when the window is built and
\* changes only by a cursor-move event for that window.
C22_MouseButtonAtLastCursorPosition ==
    [][/\ (pc = "poll" /\ ev'.kind = "CursorMoved") =>
            /\ pc' = "handler"
            /\ windows'[ev'.w].cursor_position = ev'.arg.position
            /\ cur' = Call(ev'.w, "on_cursor_move",
                           [NoArg EXCEPT !.position = ev'.arg.position])
       /\ (pc = "poll" /\ ev'.kind = "MouseInput") =>
            /\ pc' = "handler"
            /\ cur' = Call(ev'.w, "on_mouse_button",
                           [NoArg EXCEPT
                               !.button = ev'.arg.button,
                               !.state = ev'.arg.state,
                               !.position = windows[ev'.w].cursor_position])
       /\ \A w \in Registered \cap DOMAIN windows' :
            windows'[w].cursor_position # windows[w].cursor_position =>
                pc = "poll" /\ ev'.kind = "CursorMoved" /\ ev'.w = w
       /\ \A w \in (DOMAIN windows') \ Registered :
            windows'[w].cursor_position = ZeroPoint]_vars

C22_Witness ==
    /\ pc = "handler"
    /\ ev.kind = "MouseInput"
    /\ cur.arg.button = <<"Other", 4>>
    /\ cur.arg.position # ZeroPoint

\* C23: while run() is in its startup loop each turn builds one descriptor,
\* gives it the next platform id and inserts its state into the registry,
\* nothing is put on the pending creates, no event is dispatched and no
\* callback runs; the loop is left only when no descriptor remains.
C23_StartupInsertsDirectly ==
    [][pc = "init" =>
          IF descsLeft > 0
          THEN /\ pc' = "init"
               /\ descsLeft' = descsLeft - 1
               /\ nextId' = nextId + 1
               /\ DOMAIN windows' = Registered \cup {nextId}
               /\ windows'[nextId].id = nextId
               /\ \A w \in Registered : windows'[w] = windows[w]
               /\ buffered_window_creates' = <<>>
               /\ ev' = NoEvent
               /\ cur' = NoCall
          ELSE /\ pc' = "drain_create"
               /\ windows' = windows
               /\ Registered = Handles
               /\ buffered_window_creates = <<>>
               /\ ev' = NoEvent]_vars

C23_Witness ==
    /\ pc = "init"
    /\ descsLeft = 0
    /\ Registered = {1, 2}
    /\ buffered_window_destroys # <<>>

\* C24: the drain calls on_destroy in the order the ids were enqueued, each
\* call on the window the step has just removed; when the drain ends every
\* enqueued id has had its call, and the queue is empty when the next event
\* is awaited.
C24_DestroysInQueuedOrder ==
    /\ pc \in {"drain_destroy", "on_destroy"} =>
        IsPrefix(destroyCalls, iter.enq)
    /\ pc = "on_destroy" =>
        /\ destroyCalls # <<>>
        /\ cur = Call(iter.enq[Len(destroyCalls)], "on_destroy", NoArg)
        /\ cur.w \notin Registered
    /\ DrainEnd => destroyCalls = iter.enq
    /\ pc = "poll" => buffered_window_destroys = <<>>

C24_Witness ==
    /\ DrainEnd
    /\ Len(destroyCalls) = 2
    /\ destroyCalls[1] > destroyCalls[2]

\* C25: whenever the platform is about to deliver an event, and whenever
\* the closure has returned early without reaching the drain, the pending
\* creates and the destroy queue are both empty.
C25_BuffersEmptyBetweenEvents ==
    pc \in {"poll", "returned"} =>
        /\ buffered_window_creates = <<>>
        /\ buffered_window_destroys = <<>>

C25_Witness ==
    /\ pc = "returned"
    /\ ev.kind = "KeyboardInput"
    /\ roundTripped # {}

WindowEventKinds ==
    {"Resized", "CloseRequested", "CursorMoved", "MouseInput",
     "KeyboardInput", "ScaleFactorChanged", "OtherWindowEvent"}

\* C26: the step that dispatches a window event for a registered window
\* starts a callback on that window only, and leaves the registry's ids
\* and the state of every other window (extent, cursor position, repeat
\* tracker) as they were.
C26_OtherWindowsUntouched ==
    [][(pc = "poll" /\ ev'.kind \in WindowEventKinds) =>
          /\ ev'.w \in Registered
          /\ DOMAIN windows' = Registered
          /\ \A v \in Registered \ {ev'.w} : windows'[v] = windows[v]
          /\ pc' = "handler" => cur'.w = ev'.w]_vars

C26_Witness ==
    /\ pc = "handler"
    /\ ev.kind = "KeyboardInput"
    /\ ev.arg.input.state = "Released"
    /\ \E v \in Registered \ {ev.w} :
        /\ windows[v].repeated_key # NoTracker
        /\ windows[v].repeated_key[1].input.virtual_keycode =
               ev.arg.input.virtual_keycode

Draining == pc \in {"drain_destroy", "on_destroy"}

\* C28: while the destroy queue is drained it only loses its front id: no
\* step of the drain adds an id, so the ids already called plus the ids
\* still queued stay the same from the start of the drain; and from inside
\* an on_destroy callback the only steps are the callback returning or the
\* fatal "already borrowed" of a Window::destroy() call.
C28_QueueNotExtendedWhileDrained ==
    [][Draining =>
          /\ \/ buffered_window_destroys' = buffered_window_destroys
             \/ /\ buffered_window_destroys # <<>>
                /\ buffered_window_destroys' = Tail(buffered_window_destroys)
          /\ pc' \in {"drain_destroy", "on_destroy"} =>
                destroyCalls' \o buffered_window_destroys' =
                   destroyCalls \o buffered_window_destroys
          /\ pc = "on_destroy" =>
                \/ /\ pc' = "drain_destroy"
                   /\ buffered_window_destroys' = buffered_window_destroys
                \/ /\ pc' = "fatal"
                   /\ fatal' = "already borrowed"
                   /\ buffered_window_destroys' = buffered_window_destroys]_vars

C28_Witness ==
    /\ pc = "fatal"
    /\ fatal = "already borrowed"
    /\ cur.cb = "on_destroy"
    /\ buffered_window_destroys # <<>>

\* the startup windows whose constructor closure called Window::destroy()
\* once on its handle
SelfDestroyedAtStartup ==
    IF iter.startup THEN {w \in iter.before : Count(iter.enq, w) = 1} ELSE {}

\* C29: until the startup drain has ended no platform event is dispatched
\* and no callback other than on_destroy runs; a startup window whose
\* constructor asked once for its own destruction is in the registry when
\* the startup drain begins and has left it, with exactly one on_destroy,
\* when the drain ends; the event loop is entered only after that drain;
\* and a window that has had its on_destroy is never registered or called
\* again.
C29_StartupSelfDestroy ==
    /\ iter.startup =>
        /\ pc \in {"init", "drain_create", "drain_destroy", "on_destroy",
                   "fatal"}
        /\ ev = NoEvent
        /\ idled = {}
        /\ cur.cb \in {None, "on_destroy"}
    /\ \A w \in SelfDestroyedAtStartup :
        /\ pc \in {"init", "drain_create"} =>
              w \in Registered /\ destroyCount[w] = 0
        /\ DrainEnd => w \notin Registered /\ destroyCount[w] = 1
    /\ pc \in {"poll", "handler", "idle", "returned", "terminated"} =>
          ~iter.startup
    /\ \A w \in Ids : destroyCount[w] > 0 =>
        /\ destroyCount[w] = 1
        /\ w \notin Registered
        /\ w \notin IdsOf(buffered_window_creates)
        /\ (pc \in {"handler", "idle"} => cur.w # w)

C29_Witness ==
    /\ DrainEnd
    /\ iter.startup
    /\ \E w \in SelfDestroyedAtStartup : destroyCalls = <<w>>
    /\ Registered # {}

\* C27: every identical key-down of a held key reports Repeated with a
\* count larger than the count of the key-down before it, and the increment
\* of the count never ends in a panic.
C27_RepeatCountNeverWraps ==
    /\ fatal # OverflowPanic
    /\ (pc = "handler" /\ cur.cb = "on_key" /\ cur.arg.state = "Repeated") =>
        /\ ev.was.state.repeated_key # NoTracker
        /\ cur.arg.count > ev.was.state.repeated_key[1].count
        /\ windows[cur.w].repeated_key =
              SomeTracker(ev.arg.input, cur.arg.count)

====
